---- MODULE Spec2Model ----
(***************************************************************************)
(* A model of gopackkit.  The password manager (password/password.go):     *)
(* policy validation, bcrypt hashing and verification, rehash detection,   *)
(* random password generation, and UpdateConfig running concurrently with  *)
(* the calls that read the configuration.  The HTTP client                 *)
(* (httpclient/client.go): the retry loop of Do.  The JWT token manager    *)
(* (jwt package): generation, validation and refresh of tokens over a      *)
(* clock.  Each module has its own variables and its own specifications.   *)
(*                                                                         *)
(* Strings are sequences of one-character strings.  An encoded bcrypt hash *)
(* is modelled by the fields bcrypt's parser reads from it (its size, its  *)
(* prefix byte, its version byte, its cost, its salt and its digest).  The *)
(* digest is the ideal one: it is determined by, and determines, the       *)
(* 72 bytes of key material blowfish consumes, the salt and the cost.      *)
(* HashedPassword.CreatedAt (time.Now()) is not modelled.                  *)
(***************************************************************************)
EXTENDS Integers, Sequences, FiniteSets, TLC

VARIABLES
  \* the password manager: its configuration, the HashedPassword Hash
  \* returned last, whether UpdateConfig ran since, and the last call
  config, stored, changedSince, last,
  \* an UpdateConfig storing its argument, and a call reading the
  \* configuration meanwhile, on another goroutine
  update, reading,
  \* the HTTP client: its configuration and its last call of Do
  client, call,
  \* the JWT token manager: its configuration, the clock, the pair
  \* GenerateTokenPair returned last, and the last call with its time
  tm, now, original, jwtLast,
  \* the validator: its last call of ValidateStruct
  checked,
  \* the configuration loader: its last call of LoadFromEnv or LoadFromJSON
  loaded

\* the variables of the calls that run concurrently on one manager
concurrencyVars == <<update, reading>>

\* the variables of the HTTP client
httpVars == <<client, call>>

\* the variables of the JWT token manager
jwtVars == <<tm, now, original, jwtLast>>

\* the variable of the validator
validatorVars == <<checked>>

\* the variable of the configuration loader
loaderVars == <<loaded>>

\* the variables of the other modules of the repository
otherModules == <<httpVars, jwtVars, validatorVars, loaderVars>>

vars == <<config, stored, changedSince, last, concurrencyVars, otherModules>>

----------------------------------------------------------------------------
(* Bounds of the model *)

\* number of distinct salts the random source of bcrypt may produce
MaxSalt == 2
\* number of filler characters appended to a base to make a policy-length password
PadLen == 5
\* longest plaintext enumerated character by character
MaxLen == 2

----------------------------------------------------------------------------
(* Character classes (password.go 294-297, 370-407) *)

lowercase ==
  <<"a","b","c","d","e","f","g","h","i","j","k","l","m",
    "n","o","p","q","r","s","t","u","v","w","x","y","z">>

uppercase ==
  <<"A","B","C","D","E","F","G","H","I","J","K","L","M",
    "N","O","P","Q","R","S","T","U","V","W","X","Y","Z">>

digits == <<"0","1","2","3","4","5","6","7","8","9">>

special ==
  <<"!","@","#","$","%","^","&","*","(",")","_","+","-",
    "=","[","]","{","}","|",";",":",",",".","<",">","?">>

Range(f) == { f[i] : i \in DOMAIN f }

UpperChars == Range(uppercase)

LowerChars == Range(lowercase)

DigitChars == Range(digits)

SpecialChars == Range(special)

containsUpper(s) == \E i \in DOMAIN s : s[i] \in UpperChars

containsLower(s) == \E i \in DOMAIN s : s[i] \in LowerChars

containsDigit(s) == \E i \in DOMAIN s : s[i] \in DigitChars

containsSpecial(s) == \E i \in DOMAIN s : s[i] \in SpecialChars

----------------------------------------------------------------------------
(* Plaintexts given to Validate *)

Fill(n) == [i \in 1..n |-> "x"]

\* 8 characters with an upper, a lower and a digit
Pw8 == <<"A", "a", "1">> \o Fill(PadLen)

\* one character of each class
Alphabet == {"a", "B", "1", "!"}

\* 12 characters of every class, with no run and no sequence
Strong12 == <<"M", "7", "#", "k", "Q", "2", "$", "w", "Z", "9", "!", "p">>

\* 16 characters of every class, with no run and no sequence
Strong16 == Strong12 \o <<"L", "4", "&", "x">>

\* plaintexts with a run of one character or a three-character sequence
PatternInputs ==
  { <<"a", "a", "a">>, <<"a", "b", "c">>, <<"C", "B", "A">>, <<"q", "w", "e">>,
    <<"3", "2", "1">>, <<"Q", "W", "E">>, <<"x", "Y", "z", "1">>,
    <<"a", "b">>, <<"a", "a", "b", "b">>, <<"a", "c", "e">>,
    <<"p", "a", "s", "s", "w", "o", "r", "d">>,
    <<"P", "a", "s", "s", "w", "o", "r", "d", "1", "2", "3">> }

\* plaintexts given to Validate: every string over Alphabet of at most
\* MaxLen characters, strings with a character of no class, some of policy
\* length, some with patterns and some strong ones
ValidateInputs ==
  UNION { [1..n -> Alphabet] : n \in 0..MaxLen }
  \cup { <<" ">>, <<"a", " ">>,
         Pw8, <<"y">> \o Fill(PadLen + 2), <<"A", "a", "1", "!">> \o Fill(PadLen) }
  \cup PatternInputs
  \cup { Strong12, Strong16 }

----------------------------------------------------------------------------
(* Strength scoring (password.go 231-282, 409-458) *)

\* strings.ToLower on one character
UpperIndex == [c \in Range(uppercase) |-> CHOOSE i \in DOMAIN uppercase : uppercase[i] = c]

ToLowerChar(c) == IF c \in DOMAIN UpperIndex THEN lowercase[UpperIndex[c]] ELSE c

ToLower(s) == [i \in DOMAIN s |-> ToLowerChar(s[i])]

\* strings.Contains(s, sequence[i : i+length])
Contains(s, sequence, i, length) ==
  \E j \in 0..(Len(s) - length) : \A k \in 1..length : s[j + k] = sequence[i + k]

reverse(s) == [i \in DOMAIN s |-> s[Len(s) + 1 - i]]

hasRepeatingChars(s) ==
  IF Len(s) < 3 THEN FALSE
  ELSE \E i \in 0..(Len(s) - 3) : s[i+1] = s[i+2] /\ s[i+2] = s[i+3]

\* the search with the plaintext compared as it is written
containsSequenceCaseSensitive(s, sequence, length) ==
  \E i \in 0..(Len(sequence) - length) : Contains(s, sequence, i, length)

containsSequence(s, sequence, length) ==
  LET lower == ToLower(s)
  IN  \E i \in 0..(Len(sequence) - length) : Contains(lower, sequence, i, length)

keyboard ==
  <<"q","w","e","r","t","y","u","i","o","p","a","s","d",
    "f","g","h","j","k","l","z","x","c","v","b","n","m">>

sequences == <<lowercase, uppercase, digits, keyboard>>

\* reverse(seq) of each of the sequences
reversed == [k \in DOMAIN sequences |-> reverse(sequences[k])]

hasSequentialChars(s) ==
  IF Len(s) < 3 THEN FALSE
  ELSE \E k \in DOMAIN sequences :
          \/ containsSequence(s, sequences[k], 3)
          \/ containsSequence(s, reversed[k], 3)

B2N(b) == IF b THEN 1 ELSE 0

\* the score with a special character counted once
ScoreSpecialOnce(password) ==
    B2N(Len(password) >= 8) + B2N(Len(password) >= 12) + B2N(Len(password) >= 16)
  + B2N(containsLower(password)) + B2N(containsUpper(password))
  + B2N(containsDigit(password)) + B2N(containsSpecial(password))
  + B2N(~hasRepeatingChars(password)) + B2N(~hasSequentialChars(password))

Score(password) ==
    B2N(Len(password) >= 8) + B2N(Len(password) >= 12) + B2N(Len(password) >= 16)
  + B2N(containsLower(password)) + B2N(containsUpper(password))
  + B2N(containsDigit(password)) + 2 * B2N(containsSpecial(password))
  + B2N(~hasRepeatingChars(password)) + B2N(~hasSequentialChars(password))

\* the tiers with each threshold one point higher
StrengthOfStrict(score) ==
  CASE score > 9 -> "Very Strong"
    [] score > 7 -> "Strong"
    [] score > 5 -> "Good"
    [] score > 3 -> "Fair"
    [] OTHER     -> "Weak"

StrengthOf(score) ==
  CASE score >= 9 -> "Very Strong"
    [] score >= 7 -> "Strong"
    [] score >= 5 -> "Good"
    [] score >= 3 -> "Fair"
    [] OTHER      -> "Weak"

\* the scores of the plaintexts given to Validate, computed once (@@ makes
\* the table explicit)
ScoreOfInput == [p \in ValidateInputs |-> Score(p)] @@ <<>>

calculateStrength(password) ==
  LET score == IF password \in DOMAIN ScoreOfInput
               THEN ScoreOfInput[password]
               ELSE Score(password)
  IN  [Strength |-> StrengthOf(score), Score |-> score]

----------------------------------------------------------------------------
(* Validate (password.go 180-229) *)

\* the messages Validate appends, as the pieces fmt.Sprintf joins
MsgTooShort(cfg) ==
  <<"Password must be at least ", ToString(cfg.MinLength), " characters long">>

MsgTooLong(cfg) ==
  <<"Password must not exceed ", ToString(cfg.MaxLength), " characters">>

MsgUpper == <<"Password must contain at least one uppercase letter">>

MsgLower == <<"Password must contain at least one lowercase letter">>

MsgDigit == <<"Password must contain at least one digit">>

MsgSpecial == <<"Password must contain at least one special character">>

\* append(list, item) when cond holds
AppendIf(list, cond, item) == IF cond THEN Append(list, item) ELSE list

TooShort(cfg, password) == Len(password) < cfg.MinLength

TooLong(cfg, password) == Len(password) > cfg.MaxLength

MissingUpper(cfg, password) == cfg.RequireUpper /\ ~containsUpper(password)

MissingLower(cfg, password) == cfg.RequireLower /\ ~containsLower(password)

MissingDigit(cfg, password) == cfg.RequireDigit /\ ~containsDigit(password)

MissingSpecial(cfg, password) == cfg.RequireSpecial /\ ~containsSpecial(password)

ValidateErrors(cfg, password) ==
  AppendIf(AppendIf(AppendIf(AppendIf(AppendIf(AppendIf(<<>>,
    TooShort(cfg, password), MsgTooShort(cfg)),
    TooLong(cfg, password), MsgTooLong(cfg)),
    MissingUpper(cfg, password), MsgUpper),
    MissingLower(cfg, password), MsgLower),
    MissingDigit(cfg, password), MsgDigit),
    MissingSpecial(cfg, password), MsgSpecial)

ValidateSuggestions(cfg, password) ==
  AppendIf(AppendIf(AppendIf(AppendIf(AppendIf(<<>>,
    TooShort(cfg, password), "Use a longer password"),
    MissingUpper(cfg, password), "Add uppercase letters (A-Z)"),
    MissingLower(cfg, password), "Add lowercase letters (a-z)"),
    MissingDigit(cfg, password), "Add numbers (0-9)"),
    MissingSpecial(cfg, password), "Add special characters (!@#$%^&*)")

\* validity without the check against MaxLength
ValidateValidNoMax(cfg, password) ==
  ~ ( \/ TooShort(cfg, password)
      \/ MissingUpper(cfg, password)
      \/ MissingLower(cfg, password)
      \/ MissingDigit(cfg, password)
      \/ MissingSpecial(cfg, password) )

ValidateValid(cfg, password) ==
  ~ ( \/ TooShort(cfg, password)
      \/ TooLong(cfg, password)
      \/ MissingUpper(cfg, password)
      \/ MissingLower(cfg, password)
      \/ MissingDigit(cfg, password)
      \/ MissingSpecial(cfg, password) )

\* Validate scoring only the plaintexts that meet the policy
ValidateScoreGated(cfg, password) ==
  LET strength == IF ValidateValid(cfg, password)
                  THEN calculateStrength(password)
                  ELSE [Strength |-> "Weak", Score |-> 0]
  IN  [ Valid       |-> ValidateValid(cfg, password),
        Errors      |-> ValidateErrors(cfg, password),
        Suggestions |-> ValidateSuggestions(cfg, password),
        Strength    |-> strength.Strength,
        Score       |-> strength.Score ]

Validate(cfg, password) ==
  LET strength == calculateStrength(password)
  IN  [ Valid       |-> ValidateValid(cfg, password),
        Errors      |-> ValidateErrors(cfg, password),
        Suggestions |-> ValidateSuggestions(cfg, password),
        Strength    |-> strength.Strength,
        Score       |-> strength.Score ]

----------------------------------------------------------------------------
(* golang.org/x/crypto/bcrypt, as password.go uses it (lines 129, 157, 351) *)

MinCost == 4

MaxCost == 31

DefaultCost == 10

\* the shortest encoded hash bcrypt parses
minHashSize == 59

\* the size of the hashes bcrypt writes
encodedHashSize == 60

\* blowfish consumes 18 32-bit words of key material
maxPasswordLen == 72

\* the terminating zero byte bcrypt appends to the password
NUL == "NUL"

\* the key material blowfish's key expansion reads: the password and its
\* terminator, repeated cyclically over 72 bytes
BcryptKey(password) ==
  LET ckey == Append(password, NUL)
  IN  [i \in 1..maxPasswordLen |-> ckey[((i - 1) % Len(ckey)) + 1]]

BcryptDigest(password, cost, salt) ==
  [key |-> BcryptKey(password), cost |-> cost, salt |-> salt]

NoDigest == [key |-> <<>>, cost |-> 0, salt |-> 0]

\* the empty string, as an encoded hash
EmptyHash ==
  [size |-> 0, prefix |-> "", major |-> 0, cost |-> 0, salt |-> 0, digest |-> NoDigest]

EncodeHash(cost, salt, digest) ==
  [size |-> encodedHashSize, prefix |-> "$", major |-> 2,
   cost |-> cost, salt |-> salt, digest |-> digest]

\* bcrypt.GenerateFromPassword with the salt the random source gave (the
\* source is taken to deliver one)
GenerateFromPassword(password, cost, salt) ==
  IF Len(password) > maxPasswordLen
  THEN [err |-> "ErrPasswordTooLong", hash |-> EmptyHash]
  ELSE LET c == IF cost < MinCost THEN DefaultCost ELSE cost
       IN  IF c > MaxCost
           THEN [err |-> "InvalidCostError", hash |-> EmptyHash]
           ELSE [err |-> "nil",
                 hash |-> EncodeHash(c, salt, BcryptDigest(password, c, salt))]

\* bcrypt's newFromHash: the error of parsing an encoded hash
newFromHash(hash) ==
  IF hash.size < minHashSize THEN "ErrHashTooShort"
  ELSE IF hash.prefix # "$" THEN "InvalidHashPrefixError"
  ELSE IF hash.major > 2 THEN "HashVersionTooNewError"
  ELSE IF hash.cost < MinCost \/ hash.cost > MaxCost THEN "InvalidCostError"
  ELSE "nil"

CompareHashAndPassword(hash, password) ==
  IF newFromHash(hash) # "nil" THEN newFromHash(hash)
  ELSE IF BcryptDigest(password, hash.cost, hash.salt) = hash.digest THEN "nil"
  ELSE "ErrMismatchedHashAndPassword"

BcryptCost(hash) ==
  IF newFromHash(hash) # "nil"
  THEN [cost |-> 0, err |-> newFromHash(hash)]
  ELSE [cost |-> hash.cost, err |-> "nil"]

----------------------------------------------------------------------------
(* Errors (password.go 74-81): the sentinel an error is, by errors.Is, and *)
(* the text that follows it                                                *)

NilErr == [is |-> "nil", detail |-> <<>>]

Err(sentinel, detail) == [is |-> sentinel, detail |-> detail]

RECURSIVE Join(_, _)
\* strings.Join of a list of messages
Join(list, sep) ==
  IF list = <<>> THEN <<>>
  ELSE IF Len(list) = 1 THEN list[1]
  ELSE list[1] \o <<sep>> \o Join(Tail(list), sep)

----------------------------------------------------------------------------
(* Manager operations (password.go 96-178, 349-366) *)

\* NewWithConfig filling the defaults and leaving the cost as given
NewWithConfigDefaultsOnly(c) ==
  LET c1 == IF c.MinLength = 0 THEN [c EXCEPT !.MinLength = 8] ELSE c
      c2 == IF c1.MaxLength = 0 THEN [c1 EXCEPT !.MaxLength = 128] ELSE c1
  IN  IF c2.BcryptCost = 0 THEN [c2 EXCEPT !.BcryptCost = 12] ELSE c2

NewWithConfig(c) ==
  LET c1 == IF c.MinLength = 0 THEN [c EXCEPT !.MinLength = 8] ELSE c
      c2 == IF c1.MaxLength = 0 THEN [c1 EXCEPT !.MaxLength = 128] ELSE c1
      c3 == IF c2.BcryptCost = 0 THEN [c2 EXCEPT !.BcryptCost = 12] ELSE c2
      c4 == IF c3.BcryptCost < 4 THEN [c3 EXCEPT !.BcryptCost = 4] ELSE c3
  IN  IF c4.BcryptCost > 31 THEN [c4 EXCEPT !.BcryptCost = 31] ELSE c4

NoHashedPassword == [Hash |-> EmptyHash, Algorithm |-> "", Cost |-> 0]

\* Hash without its validation step
HashOfUnvalidated(cfg, password, salt) ==
  LET g == GenerateFromPassword(password, cfg.BcryptCost, salt)
  IN  IF g.err # "nil"
      THEN [isNil |-> TRUE, hp |-> NoHashedPassword, primitive |-> TRUE,
            err |-> Err("ErrHashingFailed", <<g.err>>)]
      ELSE [isNil |-> FALSE, primitive |-> TRUE, err |-> NilErr,
            hp |-> [Hash |-> g.hash, Algorithm |-> "bcrypt", Cost |-> cfg.BcryptCost]]

\* Manager.Hash: the *HashedPassword (isNil when nil), the error, and whether
\* bcrypt.GenerateFromPassword was called.  Of the validation Hash reads
\* Valid and Errors only.
HashOf(cfg, password, salt) ==
  LET g == GenerateFromPassword(password, cfg.BcryptCost, salt)
  IN  IF ~ValidateValid(cfg, password)
      THEN [isNil |-> TRUE, hp |-> NoHashedPassword, primitive |-> FALSE,
            err |-> Err("ErrPasswordTooWeak", Join(ValidateErrors(cfg, password), ", "))]
      ELSE IF g.err # "nil"
      THEN [isNil |-> TRUE, hp |-> NoHashedPassword, primitive |-> TRUE,
            err |-> Err("ErrHashingFailed", <<g.err>>)]
      ELSE [isNil |-> FALSE, primitive |-> TRUE, err |-> NilErr,
            hp |-> [Hash |-> g.hash, Algorithm |-> "bcrypt", Cost |-> cfg.BcryptCost]]

VerifyOf(password, hash) ==
  IF hash.size = 0 THEN Err("ErrInvalidHash", <<>>)
  ELSE IF CompareHashAndPassword(hash, password) = "nil" THEN NilErr
  ELSE IF CompareHashAndPassword(hash, password) = "ErrMismatchedHashAndPassword"
  THEN Err("ErrVerificationFailed", <<>>)
  ELSE Err("ErrVerificationFailed", <<CompareHashAndPassword(hash, password)>>)

VerifyAndCheckOf(password, hash) ==
  LET err == VerifyOf(password, hash)
  IN  IF err # NilErr
      THEN IF err.is = "ErrVerificationFailed"
           THEN [ok |-> FALSE, err |-> NilErr]
           ELSE [ok |-> FALSE, err |-> err]
      ELSE [ok |-> TRUE, err |-> NilErr]

\* NeedsRehash asking for a rehash only when the configured cost is higher
NeedsRehashOfRaisedOnly(cfg, hash) ==
  IF BcryptCost(hash).err # "nil" THEN TRUE
  ELSE BcryptCost(hash).cost < cfg.BcryptCost

NeedsRehashOf(cfg, hash) ==
  IF BcryptCost(hash).err # "nil" THEN TRUE
  ELSE BcryptCost(hash).cost # cfg.BcryptCost

----------------------------------------------------------------------------
(* Random password generation (password.go 284-347, 460-478) *)

\* number of streams the random source is drawn from
MaxSeed == 5

\* The i-th read of the random source in stream seed: whether rand.Read
\* fails, the integer its four bytes give, and the clock's nanoseconds.
RandDraw(seed, i) ==
  [ fail |-> (seed % 3 = 2) /\ (i % 2 = 0),
    n    |-> ((seed + 1) * 7919 + i * 104729 + i * i * (seed + 3)) % 1000003,
    nano |-> 170000 + seed * 1009 + i * 37 ]

randomInt(max, draw) ==
  IF max <= 0 THEN 0
  ELSE IF draw.fail THEN draw.nano % max
  ELSE draw.n % max

\* the classes the policy requires, in the order the code visits them
EnabledClasses(cfg) ==
     (IF cfg.RequireLower THEN <<lowercase>> ELSE <<>>)
  \o (IF cfg.RequireUpper THEN <<uppercase>> ELSE <<>>)
  \o (IF cfg.RequireDigit THEN <<digits>> ELSE <<>>)
  \o (IF cfg.RequireSpecial THEN <<special>> ELSE <<>>)

RECURSIVE Concat(_)
Concat(list) == IF list = <<>> THEN <<>> ELSE list[1] \o Concat(Tail(list))

\* the charset of every class, whatever the policy enables
CharsetOfEveryClass(cfg) == lowercase \o uppercase \o digits \o special

Charset(cfg) ==
  IF Concat(EnabledClasses(cfg)) = <<>>
  THEN lowercase \o uppercase \o digits
  ELSE Concat(EnabledClasses(cfg))

\* required: one character of each enabled class, the k-th from the k-th draw
Required(cfg, seed) ==
  [k \in 1..Len(EnabledClasses(cfg)) |->
     EnabledClasses(cfg)[k][randomInt(Len(EnabledClasses(cfg)[k]), RandDraw(seed, k)) + 1]]

ClampLength(cfg, length) ==
  LET l1 == IF length < cfg.MinLength THEN cfg.MinLength ELSE length
  IN  IF l1 > cfg.MaxLength THEN cfg.MaxLength ELSE l1

\* the password before the shuffle: the required characters that fit, then
\* characters of the charset, each from the next draw
Unshuffled(cfg, length, seed) ==
  [i \in 1..length |->
     IF i <= Len(Required(cfg, seed))
     THEN Required(cfg, seed)[i]
     ELSE Charset(cfg)[randomInt(Len(Charset(cfg)), RandDraw(seed, i)) + 1]]

Swap(s, i, j) == [s EXCEPT ![i] = s[j], ![j] = s[i]]

RECURSIVE Shuffle(_, _, _, _)
\* the shuffle loop from position i on; base is the number of draws made before it
Shuffle(s, i, seed, base) ==
  IF i > Len(s) THEN s
  ELSE Shuffle(Swap(s, i, randomInt(Len(s), RandDraw(seed, base + i)) + 1),
               i + 1, seed, base)

Max2(a, b) == IF a >= b THEN a ELSE b

\* Manager.GenerateRandomPassword: make([]byte, length) panics on a negative length
GenerateOf(cfg, length, seed) ==
  LET n == ClampLength(cfg, length)
  IN  IF n < 0
      THEN [panicked |-> TRUE, password |-> <<>>, err |-> NilErr]
      ELSE [panicked |-> FALSE, err |-> NilErr,
            password |-> Shuffle(Unshuffled(cfg, n, seed), 1, seed,
                                 Max2(n, Len(Required(cfg, seed))))]

\* the reads of the random source one call makes: one for each required
\* class, one for each position after them, one for each step of the shuffle
DrawsOf(cfg, length) ==
  LET n == ClampLength(cfg, length)
      r == Len(EnabledClasses(cfg))
  IN  (1..r) \cup ((r + 1)..n) \cup { Max2(n, r) + i : i \in 1..n }

\* whether rand.Read failed in a call, so that randomInt took the clock
SourceFailed(cfg, length, seed) ==
  \E i \in DrawsOf(cfg, length) : RandDraw(seed, i).fail

----------------------------------------------------------------------------
(* Inputs *)

Config(min, max, upper, lower, digit, spec, cost) ==
  [MinLength |-> min, MaxLength |-> max, RequireUpper |-> upper,
   RequireLower |-> lower, RequireDigit |-> digit, RequireSpecial |-> spec,
   BcryptCost |-> cost]

\* the configuration New() passes to NewWithConfig (password.go 84-94)
DefaultConfig == Config(8, 128, TRUE, TRUE, TRUE, FALSE, 12)

\* costs a configuration may carry: unset, below and above bcrypt's range, inside it
CostInputs == {0, 2, 10, 14, 32}

\* configurations of the hashing manager: the default policy under each
\* cost, a policy that requires a special character, and one with no
\* requirement but the lengths
HashConfigs ==
  { [DefaultConfig EXCEPT !.BcryptCost = c] : c \in CostInputs }
  \cup { Config(8, 128, TRUE, TRUE, TRUE, TRUE, 12),
         Config(1, 0, FALSE, FALSE, FALSE, FALSE, 10) }

\* configurations of the verifying manager (Verify reads no configuration)
VerifyConfigs ==
  { DefaultConfig, [DefaultConfig EXCEPT !.BcryptCost = 10] }

\* as long as bcrypt reads
Pw72 == <<"A", "a", "1">> \o Fill(maxPasswordLen - 3)

\* plaintexts given to Hash: too short, valid, without a required class,
\* as long as bcrypt reads, one byte longer, longer than MaxLength
PasswordInputs ==
  { <<"A", "a", "1">>,
    Pw8,
    <<"y">> \o Fill(PadLen + 2),
    <<"A", "a", "1", "!">> \o Fill(PadLen),
    Pw72,
    Pw72 \o <<"y">>,
    Pw72 \o Fill(57) }

\* plaintexts given to Hash and Verify by the verifying manager
VerifyPasswords ==
  { Pw8,
    <<"B", "b", "2">> \o Fill(PadLen),
    Pw72,
    Pw72 \o <<"y">> }

Salts == 1..MaxSalt

\* the four Require flags: none, upper+lower+digit (the default), all,
\* special only, digit only
FlagInputs ==
  { <<FALSE, FALSE, FALSE, FALSE>>, <<TRUE, TRUE, TRUE, FALSE>>,
    <<TRUE, TRUE, TRUE, TRUE>>, <<FALSE, FALSE, FALSE, TRUE>>,
    <<FALSE, FALSE, TRUE, FALSE>> }

\* MinLength and MaxLength: unset, fewer than the classes, ordinary,
\* inverted, negative
LengthInputs ==
  { <<0, 0>>, <<2, 6>>, <<4, 6>>, <<6, 3>>, <<-2, 5>>, <<3, -1>> }

\* configurations of the generating manager
PolicyConfigs ==
  { Config(l[1], l[2], f[1], f[2], f[3], f[4], 12) : l \in LengthInputs, f \in FlagInputs }

\* lengths asked of GenerateRandomPassword
LengthRequests == {-3, 0, 1, 3, 5, 9, 16}

Seeds == 0..MaxSeed

\* configurations of the validating manager: every combination of the flags
ValidateConfigs ==
  { Config(l[1], l[2], u, lo, d, sp, 12) :
      l \in {<<0, 0>>, <<1, 2>>, <<2, 1>>}, u \in BOOLEAN, lo \in BOOLEAN,
      d \in BOOLEAN, sp \in BOOLEAN }

\* configurations given to NewWithConfig: lengths and costs unset, negative,
\* ordinary and large, under each choice of flags
NewConfigs ==
  { Config(min, max, f[1], f[2], f[3], f[4], cost) :
      min \in {-2, 0, 5}, max \in {-1, 0, 3, 200},
      f \in FlagInputs, cost \in {-1, 0, 1, 3, 4, 12, 31, 32, 99} }

\* encoded hashes a caller may hold that this manager did not write
ForeignHashes ==
  { EmptyHash,
    [EmptyHash EXCEPT !.size = 10, !.prefix = "n"],
    [EncodeHash(10, 1, BcryptDigest(Pw8, 10, 1)) EXCEPT !.prefix = "x"],
    [EncodeHash(10, 1, BcryptDigest(Pw8, 10, 1)) EXCEPT !.major = 3],
    [EncodeHash(10, 1, BcryptDigest(Pw8, 10, 1)) EXCEPT !.cost = 99],
    EncodeHash(10, 1, BcryptDigest(Pw8, 10, 1)),
    EncodeHash(14, 1, BcryptDigest(Pw8, 14, 1)) }

----------------------------------------------------------------------------
(* The manager as a state machine *)

----------------------------------------------------------------------------
(* The HTTP client (httpclient/client.go) *)

\* largest number of retries a client is configured with
MaxRetries == 3

\* Config of the client: the fields Do reads.  RetryDelay is in milliseconds.
ClientConfig(retries, delay) == [Retries |-> retries, RetryDelay |-> delay]

\* the configuration New() passes to NewWithConfig (client.go 38-45)
DefaultClientConfig == ClientConfig(3, 1000)

\* httpclient.NewWithConfig keeps the configuration as given (client.go 48-55)
ClientNewWithConfig(c) == c

\* configurations given to NewWithConfig: no retry, some, and a negative number
ClientConfigs ==
  { ClientConfig(r, d) : r \in -1..MaxRetries, d \in {0, 250, 1000} }

\* what one doRequest comes to: a response of some status (err == nil) or
\* a transport error
Outcomes == {"200", "503", "timeout", "refused"}

IsResponse(outcome) == outcome \in {"200", "503"}

\* what the attempts of one call come to, should Do make them
OutcomeStreams == [1..(MaxRetries + 1) -> Outcomes]

NoResponse == "nil"

RECURSIVE DoLoop(_, _, _, _, _)
\* the loop of Do from one attempt on: lastErr is the error kept so far,
\* slept the arguments of the calls of time.Sleep so far
DoLoop(cfg, outcomes, attempt, lastErr, slept) ==
  IF ~(attempt <= cfg.Retries)
  THEN [resp |-> NoResponse, attempts |-> attempt, slept |-> slept,
        err |-> [is |-> "request failed after attempts",
                 count |-> cfg.Retries + 1, wraps |-> lastErr]]
  ELSE IF IsResponse(outcomes[attempt + 1])
  THEN [resp |-> outcomes[attempt + 1], attempts |-> attempt + 1, slept |-> slept,
        err |-> [is |-> "nil", count |-> 0, wraps |-> "nil"]]
  ELSE DoLoop(cfg, outcomes, attempt + 1, outcomes[attempt + 1],
              IF attempt < cfg.Retries THEN Append(slept, cfg.RetryDelay) ELSE slept)

\* Do with the error of the first attempt kept in place of the last
DoOfKeepsFirstError(cfg, outcomes) ==
  LET r == DoLoop(cfg, outcomes, 0, "nil", <<>>)
  IN  IF r.err.is = "nil" THEN r ELSE [r EXCEPT !.err.wraps = outcomes[1]]

\* Client.Do: the response, the error, the number of attempts made and the
\* delays slept
DoOf(cfg, outcomes) == DoLoop(cfg, outcomes, 0, "nil", <<>>)

\* no call of Do yet
NoCall == [op |-> "", method |-> "", resp |-> NoResponse, attempts |-> 0, slept |-> <<>>,
           served |-> <<>>,
           err |-> [is |-> "nil", count |-> 0, wraps |-> "nil"]]

\* Get, Post, Put and Delete pass their method to Do (client.go 58-75), which
\* treats every method alike; one without a body and one with a body
Methods == {"GET", "POST"}

HttpInit(configs) ==
  /\ \E c \in configs : client = ClientNewWithConfig(c)
  /\ call = NoCall

----------------------------------------------------------------------------
(* The JWT token manager (jwt package) *)

\* the clock counts ticks; this many make a second
TicksPerSecond == 2

\* the last tick of the clock
MaxClock == 5

Minute == 60 * TicksPerSecond

Hour == 60 * Minute

\* time.Time.Unix(): the second a time lies in
Unix(t) == t \div TicksPerSecond

\* jwt.NewNumericDate: the time cut down to its second
NewNumericDate(t) == Unix(t) * TicksPerSecond

JwtConfig(key, access, refresh, issuer, alg) ==
  [SecretKey |-> key, AccessTokenTTL |-> access, RefreshTokenTTL |-> refresh,
   Issuer |-> issuer, Algorithm |-> alg]

\* jwt.New: the manager's configuration, or no manager and an error
JwtNew(c) ==
  IF c.SecretKey = ""
  THEN [isNil |-> TRUE, config |-> c, err |-> "ErrMissingSecretKey"]
  ELSE LET c1 == IF c.AccessTokenTTL = 0
                 THEN [c EXCEPT !.AccessTokenTTL = 15 * Minute] ELSE c
           c2 == IF c1.RefreshTokenTTL = 0
                 THEN [c1 EXCEPT !.RefreshTokenTTL = 7 * 24 * Hour] ELSE c1
           c3 == IF c2.Issuer = "" THEN [c2 EXCEPT !.Issuer = "gopackkit"] ELSE c2
           c4 == IF c3.Algorithm = "" THEN [c3 EXCEPT !.Algorithm = "HS256"] ELSE c3
       IN  [isNil |-> FALSE, config |-> c4, err |-> "nil"]

\* the signing method generateToken picks
SigningMethod(alg) == IF alg \in {"HS256", "HS384", "HS512"} THEN alg ELSE "HS256"

\* a custom claims map is a set of <<key, type, value>>; nil and the empty
\* map are {}
NoCustom == {}

\* the JSON of a custom value: a Go int and a Go float64 are both a number
JsonKind(type) == IF type \in {"int", "float64"} THEN "number" ELSE type

\* the Go type json.Unmarshal gives a value in a map[string]interface{}
GoType(kind) == IF kind = "number" THEN "float64" ELSE kind

\* json.Marshal of Claims: fields tagged omitempty are left out when empty,
\* so that nil and empty are one; a custom value keeps its JSON kind only
EncodeClaims(claims) ==
  [claims EXCEPT !.Custom = { <<e[1], JsonKind(e[2]), e[3]>> : e \in @ }]

\* json.Unmarshal into Claims
DecodeClaims(payload) ==
  [payload EXCEPT !.Custom = { <<e[1], GoType(e[2]), e[3]>> : e \in @ }]

\* generateToken: the signed token, by the algorithm of its header, the
\* payload it encodes and the key of its signature; the three decide the
\* string, HMAC being a function of them
generateToken(cfg, claims) ==
  [malformed |-> FALSE, alg |-> SigningMethod(cfg.Algorithm),
   key |-> cfg.SecretKey, payload |-> EncodeClaims(claims)]

\* the claims of an access token (part_002 91-105)
AccessClaims(cfg, t, userID, username, email, roles, custom) ==
  [UserID |-> userID, Username |-> username, Email |-> email, Roles |-> roles,
   Custom |-> custom,
   ExpiresAt |-> NewNumericDate(t + cfg.AccessTokenTTL),
   IssuedAt |-> NewNumericDate(t), NotBefore |-> NewNumericDate(t),
   Issuer |-> cfg.Issuer, Subject |-> userID, ID |-> <<"access_", Unix(t)>>]

\* the claims of a refresh token (part_002 113-123)
RefreshClaims(cfg, t, userID) ==
  [UserID |-> userID, Username |-> "", Email |-> "", Roles |-> <<>>,
   Custom |-> NoCustom,
   ExpiresAt |-> NewNumericDate(t + cfg.RefreshTokenTTL),
   IssuedAt |-> NewNumericDate(t), NotBefore |-> NewNumericDate(t),
   Issuer |-> cfg.Issuer, Subject |-> userID, ID |-> <<"refresh_", Unix(t)>>]

\* TokenManager.GenerateTokenPair at time t
GenerateTokenPairOf(cfg, t, userID, username, email, roles, custom) ==
  [AccessToken  |-> generateToken(cfg, AccessClaims(cfg, t, userID, username,
                                                    email, roles, custom)),
   RefreshToken |-> generateToken(cfg, RefreshClaims(cfg, t, userID)),
   ExpiresAt    |-> t + cfg.AccessTokenTTL,
   TokenType    |-> "Bearer"]

\* a string that is no token
MalformedToken ==
  [malformed |-> TRUE, alg |-> "", key |-> "", payload |-> <<>>]

NoClaims == <<>>

\* TokenManager.ValidateToken at time t.  jwt.ParseWithClaims checks the
\* form of the token, its signing method, its signature, then exp and nbf.
ValidateTokenOf(cfg, t, token) ==
  LET invalid == [Claims |-> NoClaims, Valid |-> FALSE, Expired |-> FALSE,
                  IssuedAt |-> 0, ExpiresAt |-> 0, err |-> "ErrInvalidToken"]
  IN  IF token.malformed THEN invalid
      ELSE IF token.alg \notin {"HS256", "HS384", "HS512"} THEN invalid
      ELSE IF token.key # cfg.SecretKey THEN invalid
      ELSE LET claims == DecodeClaims(token.payload)
           IN  IF ~(t < claims.ExpiresAt)
               THEN [invalid EXCEPT !.Expired = TRUE, !.err = "ErrExpiredToken"]
               ELSE IF t < claims.NotBefore THEN invalid
               ELSE [Claims |-> claims, Valid |-> TRUE, Expired |-> FALSE,
                     IssuedAt |-> claims.IssuedAt, ExpiresAt |-> claims.ExpiresAt,
                     err |-> "nil"]

\* TokenManager.GenerateAccessToken at time t
GenerateAccessTokenOf(cfg, t, userID, username, email, roles, custom) ==
  generateToken(cfg, AccessClaims(cfg, t, userID, username, email, roles, custom))

NoTokenPair ==
  [AccessToken |-> MalformedToken, RefreshToken |-> MalformedToken,
   ExpiresAt |-> 0, TokenType |-> ""]

\* TokenManager.RefreshToken at time t: the *TokenPair (isNil when nil) and
\* the error, by the sentinel it wraps
RefreshTokenOf(cfg, t, token) ==
  LET info == ValidateTokenOf(cfg, t, token)
  IN  IF info.err # "nil"
      THEN [isNil |-> TRUE, pair |-> NoTokenPair, err |-> info.err]
      ELSE IF ~info.Valid
      THEN [isNil |-> TRUE, pair |-> NoTokenPair, err |-> "ErrInvalidToken"]
      ELSE [isNil |-> FALSE, err |-> "nil",
            pair |-> GenerateTokenPairOf(cfg, t, info.Claims.UserID,
                        info.Claims.Username, info.Claims.Email,
                        info.Claims.Roles, info.Claims.Custom)]

\* UpdateConfig storing whatever it is given
UpdateConfigUnchecked(cfg, c) == [config |-> c, err |-> "nil"]

\* TokenManager.UpdateConfig: the configuration of the manager after the
\* call, and the error
TokenManagerUpdateConfigOf(cfg, c) ==
  IF c.SecretKey = ""
  THEN [config |-> cfg, err |-> "ErrMissingSecretKey"]
  ELSE [config |-> c, err |-> "nil"]

\* configurations given to jwt.New: everything left to the defaults, and
\* lifetimes of one and two seconds
JwtConfigs ==
  { JwtConfig("k1", 0, 0, "", ""),
    JwtConfig("k1", TicksPerSecond, 2 * TicksPerSecond, "app", "HS512") }

\* configurations given to jwt.New and to UpdateConfig after it: without a
\* key, under another key, and under the first key with nothing else set
JwtUpdateInputs ==
  { JwtConfig("", TicksPerSecond, 2 * TicksPerSecond, "other", "HS256"),
    JwtConfig("k2", TicksPerSecond, 2 * TicksPerSecond, "app", "HS512"),
    JwtConfig("k1", 0, 0, "", "") }

\* the users tokens are generated for: with a user ID only, and with a
\* name, a role and a custom claim
UserInputs ==
  { [userID |-> "u1", username |-> "", email |-> "", roles |-> <<>>,
     custom |-> NoCustom],
    [userID |-> "u2", username |-> "", email |-> "", roles |-> <<>>,
     custom |-> NoCustom],
    [userID |-> "u1", username |-> "ann", email |-> "ann@example.com",
     roles |-> <<"admin">>, custom |-> {<<"tenant", "int", 7>>}] }

\* no pair generated yet
NoOriginal ==
  [has |-> FALSE, pair |-> NoTokenPair, userID |-> "",
   cfg |-> JwtConfig("", 0, 0, "", "")]

JwtInit(configs) ==
  /\ \E c \in configs :
        /\ ~JwtNew(c).isNil
        /\ tm = JwtNew(c).config
        /\ jwtLast = [op |-> "New", at |-> 0, given |-> c, isNil |-> FALSE,
                      err |-> "nil"]
  /\ now = 0
  /\ original = NoOriginal

----------------------------------------------------------------------------
(* The validator (validator/validator.go) *)

\* most digits of a phone number given to the validator
MaxDigits == 17

\* a value of a struct field, as reflect sees it: its kind and what it holds.
\* A string holds its characters, an int its number, a pointer whether it is
\* nil, a slice its length.
StringValue(chars) == [kind |-> "string", chars |-> chars, n |-> 0, isNil |-> FALSE]

IntValue(n) == [kind |-> "int", chars |-> <<>>, n |-> n, isNil |-> FALSE]

BoolValue(b) == [kind |-> "bool", chars |-> <<>>, n |-> B2N(b), isNil |-> FALSE]

PtrValue(isNil) == [kind |-> "ptr", chars |-> <<>>, n |-> 0, isNil |-> isNil]

SliceValue(len) == [kind |-> "slice", chars |-> <<>>, n |-> len, isNil |-> FALSE]

\* isEmpty (validator.go 397-413); a nil pointer in an interface is not the
\* nil interface, so line 398 leaves it to line 409
isEmpty(value) ==
  CASE value.kind = "string" -> value.chars = <<>>
    [] value.kind = "slice"  -> value.n = 0
    [] value.kind = "ptr"    -> value.isNil
    [] OTHER                 -> FALSE

\* a ValidationError
ValidationError(fieldName, value, tag, message) ==
  [Field |-> fieldName, Value |-> value, Tag |-> tag, Message |-> message]

\* no error: the nil *ValidationError
NoValidationError == <<>>

validateRequired(fieldName, value) ==
  IF isEmpty(value)
  THEN <<ValidationError(fieldName, value, "required", <<"field is required">>)>>
  ELSE NoValidationError

\* a rule's value as strconv.Atoi reads it: whether it is a number, and which
RuleNumber(n) == [ok |-> TRUE, n |-> n]

NotANumber == [ok |-> FALSE, n |-> 0]

validateMin(fieldName, value, minStr) ==
  IF ~minStr.ok
  THEN <<ValidationError(fieldName, value, "min", <<"invalid min value">>)>>
  ELSE IF value.kind = "string" /\ Len(value.chars) < minStr.n
  THEN <<ValidationError(fieldName, value, "min",
                         <<"length must be at least ", ToString(minStr.n)>>)>>
  ELSE IF value.kind = "int" /\ value.n < minStr.n
  THEN <<ValidationError(fieldName, value, "min",
                         <<"value must be at least ", ToString(minStr.n)>>)>>
  ELSE NoValidationError

validateMax(fieldName, value, maxStr) ==
  IF ~maxStr.ok
  THEN <<ValidationError(fieldName, value, "max", <<"invalid max value">>)>>
  ELSE IF value.kind = "string" /\ Len(value.chars) > maxStr.n
  THEN <<ValidationError(fieldName, value, "max",
                         <<"length must not exceed ", ToString(maxStr.n)>>)>>
  ELSE IF value.kind = "int" /\ value.n > maxStr.n
  THEN <<ValidationError(fieldName, value, "max",
                         <<"value must not exceed ", ToString(maxStr.n)>>)>>
  ELSE NoValidationError

\* the characters validatePhone removes
Separators == {" ", "-", "(", ")", "+"}

\* strings.ReplaceAll(str, sep, "") for each separator
RemoveSeparators(str) == SelectSeq(str, LAMBDA c : c \notin Separators)

isAllDigits(str) == \A i \in DOMAIN str : str[i] \in DigitChars

validatePhone(fieldName, value) ==
  IF value.kind # "string"
  THEN <<ValidationError(fieldName, value, "phone", <<"value must be a string">>)>>
  ELSE LET cleaned == RemoveSeparators(value.chars)
       IN  IF ~isAllDigits(cleaned)
           THEN <<ValidationError(fieldName, value, "phone",
                    <<"phone number must contain only digits and valid separators">>)>>
           ELSE IF Len(cleaned) < 10 \/ Len(cleaned) > 15
           THEN <<ValidationError(fieldName, value, "phone",
                    <<"phone number must be between 10 and 15 digits">>)>>
           ELSE NoValidationError

\* applyValidationRule (validator.go 137-173)
applyValidationRule(fieldName, value, ruleName, ruleValue) ==
  CASE ruleName = "required" -> validateRequired(fieldName, value)
    [] ruleName = "min"      -> validateMin(fieldName, value, ruleValue)
    [] ruleName = "max"      -> validateMax(fieldName, value, ruleValue)
    [] ruleName = "phone"    -> validatePhone(fieldName, value)
    [] OTHER ->
         <<ValidationError(fieldName, value, ruleName,
                           <<"unknown validation rule: ", ruleName>>)>>

\* a rule of a tag, as validateField splits it at "=": its name and its value
Rule(name, value) == [name |-> name, value |-> value]

RECURSIVE validateField(_, _, _)
\* validateField over the rules strings.Split(tag, ",") gives; a blank rule
\* is skipped
validateField(fieldName, value, rules) ==
  IF rules = <<>> THEN <<>>
  ELSE (IF rules[1].name = ""
        THEN <<>>
        ELSE applyValidationRule(fieldName, value, rules[1].name, rules[1].value))
       \o validateField(fieldName, value, Tail(rules))

\* a field of a struct: whether it is exported, its value and the rules of
\* its validate tag (none when it has no tag)
Field(name, exported, value, rules) ==
  [name |-> name, exported |-> exported, value |-> value, rules |-> rules]

RECURSIVE ValidateStructOf(_)
\* ValidateStruct: the errors of the fields, in the order of the fields
ValidateStructOf(fields) ==
  IF fields = <<>> THEN <<>>
  ELSE (IF ~fields[1].exported \/ fields[1].rules = <<>>
        THEN <<>>
        ELSE validateField(fields[1].name, fields[1].value, fields[1].rules))
       \o ValidateStructOf(Tail(fields))

\* n digits: "1234567890123..."
DigitString(n) == [i \in 1..n |-> digits[(i % 10) + 1]]

\* a string with one more character put in after its first k
InsertAt(str, k, c) == SubSeq(str, 1, k) \o <<c>> \o SubSeq(str, k + 1, Len(str))

\* "123-456-7890"
DashedPhone ==
  <<"1", "2", "3", "-", "4", "5", "6", "-", "7", "8", "9", "0">>

\* strings given to the phone rule: digits only, digits with a separator or
\* a letter among them, separators only
PhoneInputs ==
  { DigitString(n) : n \in 0..MaxDigits }
  \cup { InsertAt(DigitString(n), 3, c) : n \in {8, 9, 10, 14, 15, 16},
                                          c \in {"-", " ", "+", "a", "."} }
  \cup { DashedPhone, <<"-", "-", "-">>,
         <<"1", "2", "3", "4", "5", "a", "b", "c", "d", "e">> }

\* values of fields: strings, numbers, booleans, pointers and slices, zero
\* and not
ValueInputs ==
  { StringValue(<<>>), StringValue(<<"J", "o", "h", "n">>),
    IntValue(0), IntValue(25), IntValue(-1),
    BoolValue(FALSE), BoolValue(TRUE),
    PtrValue(TRUE), PtrValue(FALSE),
    SliceValue(0), SliceValue(2) }
  \cup { StringValue(p) : p \in PhoneInputs }

\* validate tags: `required`, `required,min=2`, `phone`, `required,phone`,
\* `min=abc`, `max=20, ,required`, `unknown`
TagInputs ==
  { <<Rule("required", NotANumber)>>,
    <<Rule("required", NotANumber), Rule("min", RuleNumber(2))>>,
    <<Rule("phone", NotANumber)>>,
    <<Rule("required", NotANumber), Rule("phone", NotANumber)>>,
    <<Rule("min", NotANumber)>>,
    <<Rule("max", RuleNumber(20)), Rule("", NotANumber), Rule("required", NotANumber)>>,
    <<Rule("unknown", NotANumber)>> }

\* structs given to ValidateStruct: one tagged field, and such a field after
\* an unexported one and one with no tag
StructInputs ==
  { <<Field("Value", TRUE, v, t)>> : v \in ValueInputs, t \in TagInputs }
  \cup { << Field("hidden", FALSE, IntValue(0), <<Rule("required", NotANumber)>>),
            Field("Note", TRUE, StringValue(<<>>), <<>>),
            Field("Value", TRUE, v, <<Rule("required", NotANumber)>>) >> :
          v \in {StringValue(<<>>), IntValue(0), IntValue(25)} }

\* no call of the validator yet
NoCheck == [op |-> "", fields |-> <<>>, errors |-> <<>>]

----------------------------------------------------------------------------
(* The configuration loader (config/config.go) *)

\* strconv.ParseInt(value, 10, 64) on the strings of the model: the number,
\* or none for a string that is not one
ParseInt(value) ==
  CASE value = "8080" -> [ok |-> TRUE, n |-> 8080]
    [] value = "9090" -> [ok |-> TRUE, n |-> 9090]
    [] value = "3000" -> [ok |-> TRUE, n |-> 3000]
    [] value = "0"    -> [ok |-> TRUE, n |-> 0]
    [] OTHER          -> [ok |-> FALSE, n |-> 0]

\* what a field of kind string or int holds
StringOf(str) == [s |-> str, n |-> 0]

IntOf(n) == [s |-> "", n |-> n]

\* the zero value of a field: "" and 0
ZeroOf(kind) == IF kind = "string" THEN StringOf("") ELSE IntOf(0)

\* a field of the configuration struct: its kind, whether it can be set
\* (it is exported), its default tag ("" for none), what os.Getenv returns
\* for its environment name ("" when unset), what the JSON file says
\* for it ("" when the file has no such key), and what it holds
ConfigField(kind, canSet, default, env, json) ==
  [kind |-> kind, canSet |-> canSet, default |-> default, env |-> env,
   json |-> json, holds |-> ZeroOf(kind)]

\* setFieldValue (config.go 91-142) on a string or an int field
setFieldValue(field, value) ==
  IF field.kind = "string"
  THEN [field |-> [field EXCEPT !.holds = StringOf(value)], err |-> "nil"]
  ELSE IF ParseInt(value).ok
  THEN [field |-> [field EXCEPT !.holds = IntOf(ParseInt(value).n)], err |-> "nil"]
  ELSE [field |-> field, err |-> "invalid integer value"]

\* the value loadStruct sets a field to: that of the environment, or the
\* default tag when the environment has none; "" when it sets nothing
envValue(field) == IF field.env = "" THEN field.default ELSE field.env

RECURSIVE loadStruct(_)
\* loadStruct (config.go 44-89) over fields that are no structs: it stops at
\* the first field it fails to set
loadStruct(fields) ==
  IF fields = <<>> THEN [fields |-> <<>>, err |-> "nil"]
  ELSE IF ~fields[1].canSet \/ envValue(fields[1]) = ""
  THEN LET rest == loadStruct(Tail(fields))
       IN  [fields |-> <<fields[1]>> \o rest.fields, err |-> rest.err]
  ELSE LET set == setFieldValue(fields[1], envValue(fields[1]))
       IN  IF set.err # "nil"
           THEN [fields |-> fields, err |-> "failed to set field"]
           ELSE LET rest == loadStruct(Tail(fields))
                IN  [fields |-> <<set.field>> \o rest.fields, err |-> rest.err]

\* LoadFromEnv (config.go 20-27) on a pointer to a struct
LoadFromEnvOf(fields) == loadStruct(fields)

\* json.Unmarshal into the struct: a key of the file sets the exported field
\* of its name, a field without a key keeps what it holds
Unmarshal(fields) ==
  [i \in DOMAIN fields |->
     IF fields[i].canSet /\ fields[i].json # ""
     THEN IF fields[i].kind = "string"
          THEN [fields[i] EXCEPT !.holds = StringOf(fields[i].json)]
          ELSE [fields[i] EXCEPT !.holds = IntOf(ParseInt(fields[i].json).n)]
     ELSE fields[i]]

\* LoadFromJSON (config.go 30-42): the file is read and unmarshalled, then
\* LoadFromEnv runs over the result
LoadFromJSONOf(readable, fields) ==
  IF ~readable
  THEN [fields |-> fields, err |-> "failed to read config file"]
  ELSE LoadFromEnvOf(Unmarshal(fields))

\* one field of each kind, exported or not, with and without a default
\* tag, an environment value (a number, or a word) and a key in the file
FieldInputs ==
  { ConfigField(k, c, d, e, j) :
      k \in {"string", "int"}, c \in BOOLEAN, d \in {"", "3000"},
      e \in {"", "8080", "abc"}, j \in {"", "9090"} }

\* structs given to the loader: one field, or one field and a second after it
ConfigInputs ==
  { <<f>> : f \in FieldInputs }
  \cup { <<f, g>> : f \in FieldInputs,
                   g \in { ConfigField("int", TRUE, "3000", "", "9090"),
                           ConfigField("string", TRUE, "", "abc", "") } }

\* no call of the loader yet
NoLoad == [op |-> "", given |-> <<>>, fields |-> <<>>, err |-> "nil"]

----------------------------------------------------------------------------
(* The manager as a concurrent object *)

\* the fields of Config, one store or load each (password.go 19-27)
ConfigFields ==
  { "MinLength", "MaxLength", "RequireUpper", "RequireLower", "RequireDigit",
    "RequireSpecial", "BcryptCost" }

\* the fields of pm.config an operation loads, in the order of its code
ReadOrder(op) ==
  CASE op = "Validate" ->
         <<"MinLength", "MaxLength", "RequireUpper", "RequireLower",
           "RequireDigit", "RequireSpecial">>
    [] op = "Hash" ->
         <<"MinLength", "MaxLength", "RequireUpper", "RequireLower",
           "RequireDigit", "RequireSpecial", "BcryptCost">>
    [] op = "NeedsRehash" -> <<"BcryptCost">>
    [] op = "GenerateRandomPassword" ->
         <<"MinLength", "MaxLength", "RequireLower", "RequireUpper",
           "RequireDigit", "RequireSpecial">>

\* the operations that load pm.config
Readers == {"Validate", "Hash", "NeedsRehash", "GenerateRandomPassword"}

\* no UpdateConfig has stored anything yet
NoUpdate == [active |-> FALSE, has |-> FALSE, written |-> {}]

\* no operation is loading the configuration
NoReading == [active |-> FALSE, op |-> "", seen |-> <<>>, during |-> {}]

\* configurations of the manager shared by two goroutines
SharedConfigs ==
  { DefaultConfig, Config(12, 64, FALSE, TRUE, TRUE, TRUE, 10) }

NoStored == [has |-> FALSE, hp |-> NoHashedPassword, password |-> <<>>]

\* the hashes Verify and NeedsRehash are called with: foreign ones and the
\* one Hash returned last
HashInputs == ForeignHashes \cup (IF stored.has THEN {stored.hp.Hash} ELSE {})

InitWith(configs) ==
  /\ \E c \in configs :
        /\ config = NewWithConfig(c)
        /\ last = [op |-> "NewWithConfig", given |-> c]
  /\ stored = NoStored
  /\ changedSince = FALSE
  /\ update = NoUpdate
  /\ reading = NoReading
  /\ HttpInit({DefaultClientConfig})
  /\ JwtInit({JwtConfig("k1", 0, 0, "", "")})
  /\ checked = NoCheck
  /\ loaded = NoLoad

\* Validate writing the defaults back into the configuration it read
ValidateCallNormalising(password) ==
  /\ last' = [op |-> "Validate", password |-> password,
              result |-> Validate(config, password)]
  /\ config' = NewWithConfig(config)
  /\ UNCHANGED <<stored, changedSince, concurrencyVars, otherModules>>

ValidateCall(password) ==
  /\ last' = [op |-> "Validate", password |-> password,
              result |-> Validate(config, password)]
  /\ UNCHANGED <<config, stored, changedSince, concurrencyVars, otherModules>>

Hash(password, salt) ==
  LET r == HashOf(config, password, salt)
  IN  /\ last' = [op |-> "Hash", password |-> password, isNil |-> r.isNil,
                  hp |-> r.hp, err |-> r.err, primitive |-> r.primitive]
      /\ IF r.isNil
         THEN UNCHANGED <<stored, changedSince>>
         ELSE /\ stored' = [has |-> TRUE, hp |-> r.hp, password |-> password]
              /\ changedSince' = FALSE
      /\ UNCHANGED <<config, concurrencyVars, otherModules>>

Verify(password, hash) ==
  /\ last' = [op |-> "Verify", password |-> password, hash |-> hash,
              err |-> VerifyOf(password, hash)]
  /\ UNCHANGED <<config, stored, changedSince, concurrencyVars, otherModules>>

VerifyAndCheck(password, hash) ==
  /\ last' = [op |-> "VerifyAndCheck", password |-> password, hash |-> hash,
              ok |-> VerifyAndCheckOf(password, hash).ok,
              err |-> VerifyAndCheckOf(password, hash).err]
  /\ UNCHANGED <<config, stored, changedSince, concurrencyVars, otherModules>>

NeedsRehash(hash) ==
  /\ last' = [op |-> "NeedsRehash", hash |-> hash,
              result |-> NeedsRehashOf(config, hash)]
  /\ UNCHANGED <<config, stored, changedSince, concurrencyVars, otherModules>>

GenerateRandomPassword(length, seed) ==
  LET r == GenerateOf(config, length, seed)
  IN  /\ last' = [op |-> "GenerateRandomPassword", length |-> length,
                  panicked |-> r.panicked, password |-> r.password, err |-> r.err,
                  sourceFailed |-> SourceFailed(config, length, seed)]
      /\ UNCHANGED <<config, stored, changedSince, concurrencyVars, otherModules>>

\* NewWithConfig called for a new manager, which replaces the one in use
NewManager(c) ==
  /\ config' = NewWithConfig(c)
  /\ last' = [op |-> "NewWithConfig", given |-> c]
  /\ stored' = NoStored
  /\ changedSince' = FALSE
  /\ UNCHANGED <<concurrencyVars, otherModules>>

UpdateConfig(c) ==
  /\ config' = c
  /\ changedSince' = TRUE
  /\ last' = [op |-> "UpdateConfig", given |-> c]
  /\ UNCHANGED <<stored, concurrencyVars, otherModules>>

\* UpdateConfig on a goroutine of its own: pm.config = config begins.  The
\* assignment copies a struct of seven fields with no lock and no atomic
\* (password.go 13-16, 364-366), so other goroutines run between its stores.
UpdateConfigBegin(c) ==
  /\ ~update.active
  /\ update' = [active |-> TRUE, has |-> TRUE, old |-> config, new |-> c,
                written |-> {}]
  /\ reading' = IF reading.active
                THEN [reading EXCEPT !.during = @ \cup {c}]
                ELSE reading
  /\ UNCHANGED <<config, stored, changedSince, last, otherModules>>

\* one store of the copy; the order of the stores is the compiler's
UpdateConfigStore(f) ==
  /\ update.active
  /\ f \notin update.written
  /\ config' = [config EXCEPT ![f] = update.new[f]]
  /\ IF update.written \cup {f} = ConfigFields
     THEN /\ update' = [update EXCEPT !.active = FALSE, !.written = ConfigFields]
          /\ changedSince' = TRUE
          /\ last' = [op |-> "UpdateConfig", given |-> update.new]
     ELSE /\ update' = [update EXCEPT !.written = @ \cup {f}]
          /\ UNCHANGED <<changedSince, last>>
  /\ UNCHANGED <<stored, reading, otherModules>>

\* an operation that reads pm.config starts on another goroutine; during
\* holds the values the whole configuration has while it runs
ReadBegin(op) ==
  /\ ~reading.active
  /\ reading' = [active |-> TRUE, op |-> op, seen |-> <<>>,
                 during |-> IF update.active
                            THEN {update.old, update.new}
                            ELSE {config}]
  /\ UNCHANGED <<config, stored, changedSince, last, update, otherModules>>

\* the operation loads the next field of pm.config its code reads
ReadField ==
  /\ reading.active
  /\ LET order == ReadOrder(reading.op)
         seen  == Append(reading.seen, config[order[Len(reading.seen) + 1]])
     IN  reading' = [reading EXCEPT !.seen = seen,
                                    !.active = Len(seen) < Len(order)]
  /\ UNCHANGED <<config, stored, changedSince, last, update, otherModules>>

InitConcurrent == InitWith(SharedConfigs)

NextConcurrent ==
  \/ \E c \in SharedConfigs : UpdateConfigBegin(c)
  \/ \E f \in ConfigFields : UpdateConfigStore(f)
  \/ \E op \in Readers : ReadBegin(op)
  \/ ReadField

\* UpdateConfig concurrent with the operations that read the configuration
SpecConcurrent == InitConcurrent /\ [][NextConcurrent]_vars

\* the variables of the password manager
managerVars == <<config, stored, changedSince, last, concurrencyVars>>

\* a password manager that is constructed and not used
ManagerInit ==
  /\ config = NewWithConfig(DefaultConfig)
  /\ last = [op |-> "NewWithConfig", given |-> DefaultConfig]
  /\ stored = NoStored
  /\ changedSince = FALSE
  /\ update = NoUpdate
  /\ reading = NoReading

\* Client.Do, with what its attempts come to
Do(method, outcomes) ==
  LET r == DoOf(client, outcomes)
  IN  /\ call' = [op |-> "Do", method |-> method, resp |-> r.resp,
                  attempts |-> r.attempts, slept |-> r.slept, err |-> r.err,
                  served |-> SubSeq(outcomes, 1, r.attempts)]
      /\ UNCHANGED <<client, managerVars, jwtVars, validatorVars, loaderVars>>

\* httpclient.NewWithConfig called for a new client, which replaces the one in use
NewClient(c) ==
  /\ client' = ClientNewWithConfig(c)
  /\ call' = NoCall
  /\ UNCHANGED <<managerVars, jwtVars, validatorVars, loaderVars>>

InitHttp ==
  /\ ManagerInit
  /\ HttpInit(ClientConfigs)
  /\ JwtInit({JwtConfig("k1", 0, 0, "", "")})
  /\ checked = NoCheck
  /\ loaded = NoLoad

NextHttp ==
  \/ \E m \in Methods, o \in OutcomeStreams : Do(m, o)
  \/ \E c \in ClientConfigs : NewClient(c)

\* calls of one HTTP client
SpecHttp == InitHttp /\ [][NextHttp]_vars

\* the tokens a caller may hold: those of the pair GenerateTokenPair
\* returned last, those RefreshToken returned last, and a string that is
\* no token
TokenInputs ==
  { MalformedToken }
  \cup (IF original.has
        THEN {original.pair.AccessToken, original.pair.RefreshToken} ELSE {})
  \cup (IF jwtLast.op = "RefreshToken" /\ ~jwtLast.isNil
        THEN {jwtLast.pair.AccessToken, jwtLast.pair.RefreshToken} ELSE {})
  \cup (IF jwtLast.op = "GenerateAccessToken" THEN {jwtLast.token} ELSE {})

GenerateTokenPair(u) ==
  LET pair == GenerateTokenPairOf(tm, now, u.userID, u.username, u.email,
                                  u.roles, u.custom)
  IN  /\ original' = [has |-> TRUE, pair |-> pair, userID |-> u.userID, cfg |-> tm]
      /\ jwtLast' = [op |-> "GenerateTokenPair", at |-> now, isNil |-> FALSE,
                     pair |-> pair, err |-> "nil"]
      /\ UNCHANGED <<tm, now, managerVars, httpVars, validatorVars, loaderVars>>

GenerateAccessToken(u) ==
  /\ jwtLast' = [op |-> "GenerateAccessToken", at |-> now, err |-> "nil",
                 token |-> GenerateAccessTokenOf(tm, now, u.userID, u.username,
                                                 u.email, u.roles, u.custom)]
  /\ UNCHANGED <<tm, now, original, managerVars, httpVars, validatorVars, loaderVars>>

\* TokenManager.UpdateConfig
TokenManagerUpdateConfig(c) ==
  LET r == TokenManagerUpdateConfigOf(tm, c)
  IN  /\ tm' = r.config
      /\ jwtLast' = [op |-> "UpdateConfig", at |-> now, given |-> c,
                     before |-> tm, err |-> r.err]
      /\ UNCHANGED <<now, original, managerVars, httpVars, validatorVars, loaderVars>>

\* jwt.New called for a new manager, which replaces the one in use when
\* New returns one
NewTokenManager(c) ==
  LET r == JwtNew(c)
  IN  /\ tm' = IF r.isNil THEN tm ELSE r.config
      /\ jwtLast' = [op |-> "New", at |-> now, given |-> c, isNil |-> r.isNil,
                     err |-> r.err]
      /\ UNCHANGED <<now, original, managerVars, httpVars, validatorVars, loaderVars>>

ValidateToken(token) ==
  /\ jwtLast' = [op |-> "ValidateToken", at |-> now, token |-> token,
                 info |-> ValidateTokenOf(tm, now, token)]
  /\ UNCHANGED <<tm, now, original, managerVars, httpVars, validatorVars, loaderVars>>

RefreshToken(token) ==
  LET r == RefreshTokenOf(tm, now, token)
  IN  /\ jwtLast' = [op |-> "RefreshToken", at |-> now, token |-> token,
                     isNil |-> r.isNil, pair |-> r.pair, err |-> r.err]
      /\ UNCHANGED <<tm, now, original, managerVars, httpVars, validatorVars, loaderVars>>

\* the clock advances
Tick ==
  /\ now < MaxClock
  /\ now' = now + 1
  /\ UNCHANGED <<tm, original, jwtLast, managerVars, httpVars, validatorVars, loaderVars>>

InitJwt ==
  /\ ManagerInit
  /\ HttpInit({DefaultClientConfig})
  /\ JwtInit(JwtConfigs)
  /\ checked = NoCheck
  /\ loaded = NoLoad

NextJwt ==
  \/ \E u \in UserInputs : GenerateTokenPair(u)
  \/ \E t \in TokenInputs : ValidateToken(t)
  \/ \E t \in TokenInputs : RefreshToken(t)
  \/ \E u \in UserInputs : GenerateAccessToken(u)
  \/ \E c \in JwtUpdateInputs : TokenManagerUpdateConfig(c)
  \/ \E c \in JwtUpdateInputs : NewTokenManager(c)
  \/ Tick

\* calls of one token manager as time passes
SpecJwt == InitJwt /\ [][NextJwt]_vars

\* validator.ValidateStruct (and Validate, which calls it)
ValidateStruct(fields) ==
  /\ checked' = [op |-> "ValidateStruct", fields |-> fields,
                 errors |-> ValidateStructOf(fields)]
  /\ UNCHANGED <<managerVars, httpVars, jwtVars, loaderVars>>

InitValidator ==
  /\ ManagerInit
  /\ HttpInit({DefaultClientConfig})
  /\ JwtInit({JwtConfig("k1", 0, 0, "", "")})
  /\ checked = NoCheck
  /\ loaded = NoLoad

NextValidator == \E s \in StructInputs : ValidateStruct(s)

\* calls of the validator
SpecValidator == InitValidator /\ [][NextValidator]_vars

\* config.LoadFromEnv (and Load, which calls it) on a struct of zero values
LoadFromEnv(fields) ==
  LET given == [i \in DOMAIN fields |-> [fields[i] EXCEPT !.json = ""]]
      r == LoadFromEnvOf(given)
  IN  /\ loaded' = [op |-> "LoadFromEnv", given |-> given, fields |-> r.fields,
                    err |-> r.err]
      /\ UNCHANGED <<managerVars, httpVars, jwtVars, validatorVars>>

\* config.LoadFromJSON on a struct of zero values
LoadFromJSON(readable, fields) ==
  LET r == LoadFromJSONOf(readable, fields)
  IN  /\ loaded' = [op |-> "LoadFromJSON", given |-> fields, fields |-> r.fields,
                    err |-> r.err]
      /\ UNCHANGED <<managerVars, httpVars, jwtVars, validatorVars>>

InitLoader ==
  /\ ManagerInit
  /\ HttpInit({DefaultClientConfig})
  /\ JwtInit({JwtConfig("k1", 0, 0, "", "")})
  /\ checked = NoCheck
  /\ loaded = NoLoad

NextLoader ==
  \/ \E c \in ConfigInputs : LoadFromEnv(c)
  \/ \E c \in ConfigInputs, readable \in BOOLEAN : LoadFromJSON(readable, c)

\* calls of the configuration loader
SpecLoader == InitLoader /\ [][NextLoader]_vars

Init == InitWith(HashConfigs)

Next ==
  \/ \E p \in PasswordInputs, s \in Salts : Hash(p, s)
  \/ \E h \in HashInputs : NeedsRehash(h)
  \/ \E c \in HashConfigs : UpdateConfig(c)

\* hashing, rehash detection and reconfiguration
Spec == Init /\ [][Next]_vars

InitVerify == InitWith(VerifyConfigs)

NextVerify ==
  \/ \E p \in VerifyPasswords, s \in Salts : Hash(p, s)
  \/ \E p \in VerifyPasswords, h \in HashInputs : Verify(p, h)
  \/ \E p \in VerifyPasswords, h \in HashInputs : VerifyAndCheck(p, h)
  \/ \E c \in VerifyConfigs : UpdateConfig(c)

\* hashing and verification
SpecVerify == InitVerify /\ [][NextVerify]_vars

InitGenerate == InitWith(PolicyConfigs)

NextGenerate ==
  \/ \E n \in LengthRequests, seed \in Seeds : GenerateRandomPassword(n, seed)
  \/ \E c \in PolicyConfigs : UpdateConfig(c)

\* random password generation under changing policies
SpecGenerate == InitGenerate /\ [][NextGenerate]_vars

InitValidate == InitWith(ValidateConfigs)

NextValidate ==
  \/ \E p \in ValidateInputs : ValidateCall(p)
  \/ \E c \in ValidateConfigs : UpdateConfig(c)

\* validation under changing policies
SpecValidate == InitValidate /\ [][NextValidate]_vars

InitNew == InitWith(NewConfigs)

NextNew ==
  \/ \E c \in NewConfigs : NewManager(c)
  \/ \E h \in HashInputs : NeedsRehash(h)

\* construction of managers
SpecNew == InitNew /\ [][NextNew]_vars

----------------------------------------------------------------------------
(* Claims about hashing, verification and rehash detection *)

\* the last call was Hash on a plaintext that fails Validate under the
\* manager's configuration
HashOfInvalid == last.op = "Hash" /\ ~Validate(config, last.password).Valid

\* C1: Hash on a plaintext that fails Validate returns no HashedPassword and
\* an ErrPasswordTooWeak error carrying the violation messages joined by
\* ", ", without calling bcrypt; so a HashedPassword is only ever returned
\* for a plaintext that passes Validate under the configuration of the call.
C1_HashRefusesInvalid ==
  /\ HashOfInvalid =>
        /\ last.isNil
        /\ last.err.is = "ErrPasswordTooWeak"
        /\ last.err.detail = Join(Validate(config, last.password).Errors, ", ")
        /\ ~last.primitive
  /\ (last.op = "Hash" /\ ~last.isNil) => Validate(config, last.password).Valid

\* Hash refused a plaintext that breaks two rules (its messages are joined)
C1_Witness ==
  /\ HashOfInvalid
  /\ Len(Validate(config, last.password).Errors) >= 2
  /\ last.isNil

\* the hash under verification is the one Hash returned last
VerifiesStored == stored.has /\ last.hash = stored.hp.Hash

\* C2: for every plaintext that passes Validate, Hash succeeds, and Verify
\* of that plaintext against the hash returned is nil.
C2_HashVerifyRoundTrip ==
  /\ (last.op = "Hash" /\ ValidateValid(config, last.password)) =>
        (~last.isNil /\ last.err = NilErr)
  /\ (last.op = "Verify" /\ VerifiesStored /\ last.password = stored.password) =>
        last.err = NilErr

\* C3: Verify of any other plaintext against Hash(p).Hash returns
\* ErrVerificationFailed, never nil.
C3_OtherPlaintextFails ==
  (last.op = "Verify" /\ VerifiesStored /\ last.password # stored.password) =>
     last.err.is = "ErrVerificationFailed"

\* C4: an empty or unreadable hash gives ErrInvalidHash from Verify and
\* (false, non-nil error) from VerifyAndCheck; ErrVerificationFailed and
\* (false, nil) are kept for a well-formed hash and a wrong plaintext.
C4_MalformedIsInvalidHash ==
  /\ (last.op = "Verify" /\ newFromHash(last.hash) # "nil") =>
        last.err.is = "ErrInvalidHash"
  /\ (last.op = "VerifyAndCheck" /\ newFromHash(last.hash) # "nil") =>
        (~last.ok /\ last.err # NilErr)
  /\ (last.op = "Verify" /\ last.err.is = "ErrVerificationFailed") =>
        newFromHash(last.hash) = "nil"
  /\ (last.op = "VerifyAndCheck" /\ ~last.ok /\ last.err = NilErr) =>
        newFromHash(last.hash) = "nil"

\* C5: NeedsRehash of the hash Hash returned is false while the
\* configuration has not been updated since, and true once UpdateConfig has
\* set a cost other than the one the hash was made with.
C5_RehashAfterCostChange ==
  (last.op = "NeedsRehash" /\ VerifiesStored) =>
     /\ ~changedSince => ~last.result
     /\ (changedSince /\ config.BcryptCost # stored.hp.Hash.cost) => last.result

\* the cost cannot be read from an encoded hash: it is shorter than a bcrypt
\* hash, does not start with "$", has a newer version, or a cost outside 4..31
CostUnreadable(hash) ==
  \/ hash.size < 59
  \/ hash.prefix # "$"
  \/ hash.major > 2
  \/ hash.cost \notin 4..31

\* C6: NeedsRehash is true exactly when the cost cannot be read from the
\* hash or differs from the configured cost; a manager of cost 14 reports
\* true on a hash made at cost 10, and one of cost 10 on a hash made at 14.
C6_NeedsRehashExact ==
  /\ last.op = "NeedsRehash" =>
        (last.result <=> (CostUnreadable(last.hash) \/ last.hash.cost # config.BcryptCost))
  /\ (last.op = "NeedsRehash" /\ ~CostUnreadable(last.hash)
        /\ <<config.BcryptCost, last.hash.cost>> \in {<<10, 14>>, <<14, 10>>}) =>
        last.result

\* a manager of cost 14 was asked about the hash it made when its cost was 10
C6_Witness ==
  /\ last.op = "NeedsRehash"
  /\ VerifiesStored
  /\ config.BcryptCost = 14
  /\ last.hash.cost = 10
  /\ last.result

----------------------------------------------------------------------------
(* Claims about random password generation *)

Generated == last.op = "GenerateRandomPassword" /\ ~last.panicked

HasCharOf(password, class) == \E i \in 1..Len(password) : password[i] \in class

\* C7: the generated password holds a character of each enabled class and
\* passes Validate under the same manager.  Stated for the policies with
\* 0 <= MinLength <= MaxLength, where the lengths alone cannot fail it.
C7_GeneratedIsValid ==
  (Generated /\ 0 <= config.MinLength /\ config.MinLength <= config.MaxLength) =>
     /\ config.RequireLower => HasCharOf(last.password, LowerChars)
     /\ config.RequireUpper => HasCharOf(last.password, UpperChars)
     /\ config.RequireDigit => HasCharOf(last.password, DigitChars)
     /\ config.RequireSpecial => HasCharOf(last.password, SpecialChars)
     /\ Validate(config, last.password).Valid

\* C8: the generated password's length is MinLength when the request is
\* below MinLength, MaxLength when it is above MaxLength, and the request
\* otherwise.
C8_LengthClamped ==
  Generated =>
     Len(last.password) =
        IF last.length < config.MinLength THEN config.MinLength
        ELSE IF last.length > config.MaxLength THEN config.MaxLength
        ELSE last.length

\* C9: no operation of the manager panics, whatever configuration
\* NewWithConfig or UpdateConfig accepted.
C9_NeverPanics == last.op = "GenerateRandomPassword" => ~last.panicked

----------------------------------------------------------------------------
(* Claims about validation *)

\* C10: Valid is true exactly when the length lies in MinLength..MaxLength
\* and every required class has a character in the plaintext; Valid is true
\* exactly when Errors is empty; a plaintext shorter than MinLength has the
\* minimum-length message among its Errors.
C10_ValidIffPolicyMet ==
  last.op = "Validate" =>
     LET p == last.password
         r == last.result
     IN  /\ r.Valid <=>
              /\ config.MinLength <= Len(p)
              /\ Len(p) <= config.MaxLength
              /\ config.RequireUpper => HasCharOf(p, UpperChars)
              /\ config.RequireLower => HasCharOf(p, LowerChars)
              /\ config.RequireDigit => HasCharOf(p, DigitChars)
              /\ config.RequireSpecial => HasCharOf(p, SpecialChars)
         /\ r.Valid <=> (r.Errors = <<>>)
         /\ Len(p) < config.MinLength =>
              \E i \in 1..Len(r.Errors) :
                 r.Errors[i] = <<"Password must be at least ",
                                 ToString(config.MinLength), " characters long">>

\* Validate rejected a plaintext for its length alone: it is longer than
\* MaxLength and holds every required class
C10_Witness ==
  /\ last.op = "Validate"
  /\ ~last.result.Valid
  /\ Len(last.password) > config.MaxLength
  /\ Len(last.password) >= config.MinLength
  /\ config.RequireUpper /\ config.RequireSpecial
  /\ Len(last.result.Errors) = 1

----------------------------------------------------------------------------
(* Claims about the strength score *)

Triples(s) == { <<s[i], s[i + 1], s[i + 2]>> : i \in 1..(Len(s) - 2) }

\* the three-character patterns: those of the alphabet, of the digits and of
\* the keyboard string, forward and backward
Patterns3 ==
  LET forward == Triples(lowercase) \cup Triples(digits) \cup Triples(keyboard)
  IN  forward \cup { <<t[3], t[2], t[1]>> : t \in forward }

\* three identical consecutive characters
HasRun3(p) == \E i \in 1..(Len(p) - 2) : p[i] = p[i + 1] /\ p[i + 1] = p[i + 2]

\* three consecutive characters that, in lower case, form a pattern
HasPattern3(p) ==
  \E i \in 1..(Len(p) - 2) :
     <<ToLowerChar(p[i]), ToLowerChar(p[i + 1]), ToLowerChar(p[i + 2])>> \in Patterns3

\* the score as the sum of its parts
ScoreSum(p) ==
    (IF Len(p) >= 16 THEN 3 ELSE IF Len(p) >= 12 THEN 2 ELSE IF Len(p) >= 8 THEN 1 ELSE 0)
  + (IF HasCharOf(p, LowerChars) THEN 1 ELSE 0)
  + (IF HasCharOf(p, UpperChars) THEN 1 ELSE 0)
  + (IF HasCharOf(p, DigitChars) THEN 1 ELSE 0)
  + (IF HasCharOf(p, SpecialChars) THEN 2 ELSE 0)
  + (IF HasRun3(p) THEN 0 ELSE 1)
  + (IF HasPattern3(p) THEN 0 ELSE 1)

OtherPolicies == ValidateConfigs \cup HashConfigs

\* C12: the Score and Strength Validate returns depend on the plaintext
\* only: a manager of any other policy (other Require flags, lengths or
\* cost) returns the same Score and Strength for it, whether or not the
\* plaintext is Valid under either policy.
C12_ScoreIgnoresPolicy ==
  last.op = "Validate" =>
     \A c \in OtherPolicies :
        /\ Validate(c, last.password).Score = last.result.Score
        /\ Validate(c, last.password).Strength = last.result.Strength

\* Validate rejected a plaintext that another policy accepts, and scored it
C12_Witness ==
  /\ last.op = "Validate"
  /\ ~last.result.Valid
  /\ last.result.Score >= 5
  /\ \E c \in OtherPolicies :
        c.BcryptCost # config.BcryptCost /\ Validate(c, last.password).Valid

\* the order of the tiers
TierRank(strength) ==
  CASE strength = "Weak"        -> 0
    [] strength = "Fair"        -> 1
    [] strength = "Good"        -> 2
    [] strength = "Strong"      -> 3
    [] strength = "Very Strong" -> 4

\* C13: the Strength Validate returns is fixed by the Score: 9 and above is
\* Very Strong, 7..8 Strong, 5..6 Good, 3..4 Fair, 0..2 Weak; a higher score
\* never gives a lower tier.
C13_StrengthFromScore ==
  /\ last.op = "Validate" =>
        LET score == last.result.Score
        IN  last.result.Strength =
              IF score >= 9 THEN "Very Strong"
              ELSE IF score \in 7..8 THEN "Strong"
              ELSE IF score \in 5..6 THEN "Good"
              ELSE IF score \in 3..4 THEN "Fair"
              ELSE "Weak"
  /\ \A s1 \in 0..10, s2 \in 0..10 :
        s1 <= s2 => TierRank(StrengthOf(s1)) <= TierRank(StrengthOf(s2))

\* Validate scored a plaintext 9, the lowest score of the highest tier
C13_Witness ==
  /\ last.op = "Validate"
  /\ last.result.Score = 9
  /\ last.result.Strength = "Very Strong"

----------------------------------------------------------------------------
(* Claims about the configuration *)

C16_CostInRange ==
  /\ config.BcryptCost \in 4..31
  /\ (last.op = "Hash" /\ ~last.isNil) =>
        /\ last.hp.Cost = config.BcryptCost
        /\ last.hp.Cost = last.hp.Hash.cost

----------------------------------------------------------------------------
(* Claims about the random source *)

\* C18: when the secure random source fails during GenerateRandomPassword,
\* the call fails with an error or marks its result as degraded.  The call
\* returns a password and an error and nothing else, so a fallback the
\* caller can tell from the secure path is a non-nil error.
C18_FallbackIsReported ==
  (Generated /\ last.sourceFailed) => last.err # NilErr

----------------------------------------------------------------------------
(* Claims about concurrent calls *)

\* the fields an operation has loaded are those of configuration c
SeenIs(c) ==
  \A k \in 1..Len(reading.seen) :
     reading.seen[k] = c[ReadOrder(reading.op)[k]]

\* C17: when UpdateConfig runs concurrently with Validate, Hash, NeedsRehash
\* or GenerateRandomPassword on one manager, the reader observes the whole
\* old configuration or the whole new one, never fields of both; and
\* UpdateConfig replaces the configuration in one step, so that the manager
\* never holds a mixture.
C17_NoTornConfig ==
  /\ (~reading.active /\ reading.seen # <<>>) =>
        \E c \in reading.during : SeenIs(c)
  /\ update.has => config \in {update.old, update.new}

----------------------------------------------------------------------------
(* Claims about the HTTP client *)

\* C19: the client retries with exponential backoff: over the failed
\* attempts of one call of Do, the delay before each retry is larger than
\* the delay before the retry before it.
C19_BackoffGrows ==
  (call.op = "Do" /\ client.RetryDelay > 0) =>
     \A k \in 1..(Len(call.slept) - 1) : call.slept[k + 1] > call.slept[k]

----------------------------------------------------------------------------
(* Claims about the JWT token manager *)

\* RefreshToken was just called, before its expiry, on the refresh token of
\* the pair GenerateTokenPair returned last
RefreshedOriginal ==
  /\ jwtLast.op = "RefreshToken"
  /\ original.has
  /\ jwtLast.token = original.pair.RefreshToken
  /\ jwtLast.at < original.pair.RefreshToken.payload.ExpiresAt
  /\ tm = original.cfg

\* C20: RefreshToken on the refresh token of a pair from GenerateTokenPair
\* succeeds and returns a pair whose access token differs from the
\* original access token and validates to the same UserID, also when it is
\* called in the clock second of the generation.
C20_RefreshGivesNewToken ==
  RefreshedOriginal =>
     /\ ~jwtLast.isNil
     /\ jwtLast.err = "nil"
     /\ jwtLast.pair.AccessToken # original.pair.AccessToken
     /\ ValidateTokenOf(tm, jwtLast.at, jwtLast.pair.AccessToken).Valid
     /\ ValidateTokenOf(tm, jwtLast.at, jwtLast.pair.AccessToken).Claims.UserID
           = original.userID

----------------------------------------------------------------------------
(* Claims about the validator *)

\* the struct checked last has one field under the rule `required` alone
CheckedRequired ==
  /\ checked.op = "ValidateStruct"
  /\ Len(checked.fields) = 1
  /\ checked.fields[1].rules = <<Rule("required", NotANumber)>>

\* C21: the rule `required` rejects the zero value of the field's type: a
\* string "" and an int 0 both give the error "field is required", and
\* values that are not zero pass.
C21_RequiredRejectsZero ==
  CheckedRequired =>
     LET value == checked.fields[1].value
     IN  /\ (value.kind = "string" /\ value.chars = <<>>) =>
               /\ Len(checked.errors) = 1
               /\ checked.errors[1].Message = <<"field is required">>
         /\ (value.kind = "int" /\ value.n = 0) =>
               /\ Len(checked.errors) = 1
               /\ checked.errors[1].Message = <<"field is required">>
         /\ (value.kind = "string" /\ value.chars # <<>>) => checked.errors = <<>>
         /\ (value.kind = "int" /\ value.n # 0) => checked.errors = <<>>

\* the struct checked last has one string field under the rule `phone` alone
CheckedPhone ==
  /\ checked.op = "ValidateStruct"
  /\ Len(checked.fields) = 1
  /\ checked.fields[1].rules = <<Rule("phone", NotANumber)>>
  /\ checked.fields[1].value.kind = "string"

\* C22: the rule `phone` accepts a string exactly when it is 10 to 15
\* digits and nothing else; shorter and longer ones, ones with letters, ones
\* with separators such as "123-456-7890", and "" are rejected.
C22_PhoneIsDigitsOnly ==
  CheckedPhone =>
     LET str == checked.fields[1].value.chars
     IN  (checked.errors = <<>>) <=>
            /\ \A i \in 1..Len(str) : str[i] \in DigitChars
            /\ Len(str) >= 10
            /\ Len(str) <= 15

----------------------------------------------------------------------------
(* Claims about the pattern checks of the score *)

\* C23: the sequential check is true for a plaintext exactly when, in lower
\* case, it has three consecutive characters that are consecutive in the
\* alphabet, in "0123456789" or in the keyboard string, forward or backward
\* (so "ABC" and "CBA" are found like "abc" and "cba"); the repeat check is
\* true exactly when it has three identical consecutive characters; both
\* are false for a plaintext shorter than 3 characters.
C23_PatternChecks ==
  last.op = "Validate" =>
     /\ hasSequentialChars(last.password) <=> HasPattern3(last.password)
     /\ hasRepeatingChars(last.password) <=> HasRun3(last.password)
     /\ Len(last.password) < 3 =>
           /\ ~hasSequentialChars(last.password)
           /\ ~hasRepeatingChars(last.password)

\* Validate scored a plaintext whose only sequence is written in upper
\* case, and the check found it: the score lacks the point for no sequence
C23_Witness ==
  /\ last.op = "Validate"
  /\ hasSequentialChars(last.password)
  /\ ~hasSequentialChars(SelectSeq(last.password, LAMBDA c : c \notin UpperChars))
  /\ ~hasRepeatingChars(last.password)
  /\ last.result.Score = Score(last.password)
  /\ last.result.Score = 2

----------------------------------------------------------------------------
(* Claims about the characters of a generated password *)

\* the characters the policy allows: those of the enabled classes, or
\* letters and digits when no class is enabled
AllowedChars(cfg) ==
  IF ~(cfg.RequireLower \/ cfg.RequireUpper \/ cfg.RequireDigit \/ cfg.RequireSpecial)
  THEN LowerChars \cup UpperChars \cup DigitChars
  ELSE (IF cfg.RequireLower THEN LowerChars ELSE {})
       \cup (IF cfg.RequireUpper THEN UpperChars ELSE {})
       \cup (IF cfg.RequireDigit THEN DigitChars ELSE {})
       \cup (IF cfg.RequireSpecial THEN SpecialChars ELSE {})

----------------------------------------------------------------------------
(* Claims about the retry loop of the HTTP client *)

C26_AtLeastOneAttempt ==
  call.op = "Do" =>
     /\ call.attempts >= 1
     /\ call.err.is # "nil" => call.err.wraps # "nil"

----------------------------------------------------------------------------
(* Claims about what RefreshToken accepts and what it carries over *)

\* the token was issued as a refresh token: GenerateTokenPair gives a refresh
\* token the ID "refresh_<unix time>" and an access token "access_<unix time>"
IssuedAsRefresh(token) == ~token.malformed /\ token.payload.ID[1] = "refresh_"

\* C27: RefreshToken issues a new pair only for a valid, unexpired token
\* that GenerateTokenPair issued as a refresh token; for an access token,
\* an expired token or a token signed with another key it returns an error
\* and no tokens.
C27_RefreshNeedsRefreshToken ==
  jwtLast.op = "RefreshToken" =>
     /\ ~jwtLast.isNil =>
           /\ IssuedAsRefresh(jwtLast.token)
           /\ jwtLast.token.key = tm.SecretKey
           /\ jwtLast.at < jwtLast.token.payload.ExpiresAt
     /\ (\/ ~IssuedAsRefresh(jwtLast.token)
         \/ jwtLast.token.key # tm.SecretKey
         \/ ~(jwtLast.at < jwtLast.token.payload.ExpiresAt)) =>
           /\ jwtLast.isNil
           /\ jwtLast.err # "nil"

\* C28: after GenerateTokenPair and RefreshToken on the refresh token it
\* returned, the claims of the new access token have the UserID, Username,
\* Email, Roles and Custom of the original access token.
C28_RefreshKeepsClaims ==
  (RefreshedOriginal /\ ~jwtLast.isNil) =>
     LET old == DecodeClaims(original.pair.AccessToken.payload)
         new == DecodeClaims(jwtLast.pair.AccessToken.payload)
     IN  /\ new.UserID = old.UserID
         /\ new.Username = old.Username
         /\ new.Email = old.Email
         /\ new.Roles = old.Roles
         /\ new.Custom = old.Custom

----------------------------------------------------------------------------
(* Claims about the secret key of the token manager *)

\* ValidateToken was just called on a token of the pair generated last, and
\* the manager's key is no longer the key the pair was signed with
ValidatedUnderNewKey ==
  /\ jwtLast.op = "ValidateToken"
  /\ original.has
  /\ jwtLast.token \in {original.pair.AccessToken, original.pair.RefreshToken}
  /\ original.cfg.SecretKey # tm.SecretKey

----------------------------------------------------------------------------
(* Claims about the configuration loader *)

\* C30: for each settable field that is no struct, loading gives the
\* environment variable precedence over the value the struct already has
\* (such as one LoadFromJSON read), and that value precedence over the
\* default tag: a value of the JSON file is kept when the environment
\* variable is unset, and the default is used only when neither the
\* environment nor the file gives a value.
C30_EnvThenJSONThenDefault ==
  (loaded.op = "LoadFromJSON" /\ loaded.err = "nil") =>
     \A i \in 1..Len(loaded.fields) :
        LET f == loaded.fields[i]
        IN  f.canSet =>
              /\ f.env # "" => f.holds = setFieldValue(f, f.env).field.holds
              /\ (f.env = "" /\ f.json # "") =>
                    f.holds = Unmarshal(<<loaded.given[i]>>)[1].holds
              /\ (f.env = "" /\ f.json = "" /\ f.default # "") =>
                    f.holds = setFieldValue(f, f.default).field.holds

====
